---------------------------- MODULE Spec2Model ----------------------------
(***************************************************************************)
(* A model of cohort.py (cohort analysis of SSH publications): the cohort  *)
(* map (make_cohorts, format_year_range), the author/year/feature          *)
(* aggregation (author_yearly_feature_counts), the survivor filter         *)
(* (survivors), the in-place table preparation of chart_from_tidy_df and   *)
(* the record loader (load_data).                                          *)
(*                                                                         *)
(* Every function of cohort.py is a batch computation on values; each is   *)
(* an operator here, and each specification draws the function's inputs in *)
(* its initial states and applies the function in its actions.  One        *)
(* specification per function group:                                       *)
(*   SpecCohorts   make_cohorts                                            *)
(*   SpecAgg       author_yearly_feature_counts                            *)
(*   SpecSurv      survivors, and survivors applied to its own output      *)
(*   SpecChart     chart_from_tidy_df on a table owned by the caller       *)
(*   SpecLoad      load_data on a file system                              *)
(* The variables of the other groups rest at their idle values.            *)
(***************************************************************************)
EXTENDS Integers, Sequences, FiniteSets, TLC

VARIABLES
    \* make_cohorts: its arguments and what the call produced
    first, last, cohort_length, fancy_names, cohorts,
    \* author_yearly_feature_counts: the wide table, the kind, the result
    mt, kind, tidy,
    \* survivors: the table passed in, the result, the result of a second
    \* call on the first result
    df, survived, survivedAgain,
    \* chart_from_tidy_df: the caller's table object (callerDf, which the
    \* function may change in place), its value before the call (dfBefore),
    \* and what the call produced
    callerDf, dfBefore, chart,
    \* load_data: the file system, the fname argument, the path handed to
    \* read_csv, and what the call produced
    fs, fname, readPath, loaded

vars == <<first, last, cohort_length, fancy_names, cohorts,
          mt, kind, tidy, df, survived, survivedAgain,
          callerDf, dfBefore, chart, fs, fname, readPath, loaded>>

cohortVars == <<first, last, cohort_length, fancy_names, cohorts>>
aggVars    == <<mt, kind, tidy>>
survVars   == <<df, survived, survivedAgain>>
chartVars  == <<callerDf, dfBefore, chart>>
loadVars   == <<fs, fname, readPath, loaded>>

(***************************************************************************)
(* Outcomes of a call: not called yet, returned a value, raised an error.  *)
(***************************************************************************)
Pending       == [state |-> "pending"]
Returned(v)   == [state |-> "returned", value |-> v]
Raised(e)     == [state |-> "raised", error |-> e]

IsReturned(r) == r.state = "returned"
IsRaised(r)   == r.state = "raised"

(***************************************************************************)
(* Helpers on sets and sequences.                                          *)
(***************************************************************************)
Range(s) == {s[i] : i \in DOMAIN s}

SetMin(S) == CHOOSE x \in S : \A y \in S : x <= y
SetMax(S) == CHOOSE x \in S : \A y \in S : y <= x

\* the sequences over S of length up to n
SeqsUpTo(S, n) == UNION {[1..k -> S] : k \in 0..n}

(***************************************************************************)
(* Bounds of the model.                                                    *)
(***************************************************************************)
\* the largest last - first drawn for make_cohorts
MaxSpan == 5
\* the most records of a wide table
MaxRecords == 2
\* the most author identifiers on one record
MaxAuthors == 2
\* the most rows of a tidy table handed to survivors
MaxRows == 4
\* the most rows of a tidy table handed to chart_from_tidy_df
MaxChartRows == 2
\* the most data lines of a file
MaxFileRows == 2

(***************************************************************************)
(* str(int): the decimal digits as a sequence of characters.               *)
(***************************************************************************)
Digits == <<"0", "1", "2", "3", "4", "5", "6", "7", "8", "9">>

RECURSIVE NatStr(_)
NatStr(n) ==
    IF n < 10 THEN <<Digits[n + 1]>>
    ELSE NatStr(n \div 10) \o <<Digits[(n % 10) + 1]>>

str(n) == IF n < 0 THEN <<"-">> \o NatStr(-n) ELSE NatStr(n)

\* s[:2] and s[2:] of a Python string
Slice_to2(s)   == SubSeq(s, 1, IF Len(s) < 2 THEN Len(s) ELSE 2)
Slice_from2(s) == SubSeq(s, 3, Len(s))

format_year_range(start, end) ==
    LET s == str(start)
        e == str(end)
    IN  IF Slice_to2(s) = Slice_to2(e)
        THEN s \o <<"-">> \o Slice_from2(e)
        ELSE s \o <<"-">> \o e

(***************************************************************************)
(* make_cohorts.  CohortLoop is the for loop over                          *)
(* enumerate(range(first, last + 1), start=1): res, the year, the counter  *)
(* i and the running cohort.                                               *)
(***************************************************************************)
RECURSIVE CohortLoopLate(_, _, _, _, _, _)
\* the loop with the increment test off by one (i % cohort_length == 1)
CohortLoopLate(res, year, lst, i, cohort, len) ==
    IF year > lst THEN res
    ELSE CohortLoopLate(res @@ (year :> cohort), year + 1, lst, i + 1,
                        IF i % len = 1 THEN cohort + 1 ELSE cohort, len)

RECURSIVE CohortLoop(_, _, _, _, _, _)
CohortLoop(res, year, lst, i, cohort, len) ==
    IF year > lst THEN res
    ELSE CohortLoop(res @@ (year :> cohort), year + 1, lst, i + 1,
                    IF i % len = 0 THEN cohort + 1 ELSE cohort, len)

\* the fancy_names branch: d groups the years by cohort, and every year gets
\* the formatted range of its cohort's group
FancyNames(res) ==
    LET d == [c \in Range(res) |-> {yr \in DOMAIN res : res[yr] = c}]
    IN  [yr \in DOMAIN res |->
            format_year_range(SetMin(d[res[yr]]), SetMax(d[res[yr]]))]

\* make_cohorts with the range test made strict (>= instead of >)
make_cohorts_strict(fst, lst, len, fancy) ==
    IF len < 1 \/ len >= lst - fst
    THEN Raised("ValueError")
    ELSE LET res == CohortLoop(<<>>, fst, lst, 1, 1, len)
         IN  Returned(IF fancy THEN FancyNames(res) ELSE res)

make_cohorts(fst, lst, len, fancy) ==
    IF len < 1 \/ len > lst - fst
    THEN Raised("ValueError")
    ELSE LET res == CohortLoop(<<>>, fst, lst, 1, 1, len)
         IN  Returned(IF fancy THEN FancyNames(res) ELSE res)

\* the arguments drawn for make_cohorts: ranges that cross a sign change, a
\* change of digit count and a change of century, and lengths on both sides
\* of the accepted interval
FirstYears == {-2, 8, 98, 1998}

IdleCohorts ==
    /\ first = 0 /\ last = 0 /\ cohort_length = 0 /\ fancy_names = FALSE
    /\ cohorts = Pending

InitCohorts ==
    /\ first \in FirstYears
    /\ last \in (first - 1)..(first + MaxSpan)
    /\ cohort_length \in (-1)..(MaxSpan + 1)
    /\ fancy_names \in BOOLEAN
    /\ cohorts = Pending

CallMakeCohorts ==
    /\ cohorts = Pending
    /\ cohorts' = make_cohorts(first, last, cohort_length, fancy_names)
    /\ UNCHANGED <<first, last, cohort_length, fancy_names>>

(***************************************************************************)
(* Tables.  A wide table (mt) is a sequence of records, one per            *)
(* publication, with the columns author_yearly_feature_counts reads:       *)
(* pubyear, feature and allauthorids (a list).  A tidy table is the name   *)
(* of its value column (n until chart_from_tidy_df renames it) and a       *)
(* sequence of rows with the columns aloi, pubyear, feature, n, cohort.    *)
(* A value n is the fraction num/den: the division of kind='rel' is kept   *)
(* exact, and a count is a fraction over 1.                                *)
(***************************************************************************)
\* identifiers and feature values, each listed in its sort order
AuthorIds == <<"a1", "a2">>
FeatureValues == <<"article", "book">>
Kinds == {"rel", "abs", "bogus"}

Rank(order, x) == CHOOSE i \in DOMAIN order : order[i] = x

RECURSIVE SortedBy(_, _)
\* the elements of S as a sequence, by increasing key
SortedBy(S, key) ==
    IF S = {} THEN <<>>
    ELSE LET m == CHOOSE x \in S : \A y \in S : key[x] <= key[y]
         IN  <<m>> \o SortedBy(S \ {m}, key)

RECURSIVE SumOver(_, _)
SumOver(S, val) ==
    IF S = {} THEN 0
    ELSE LET x == CHOOSE y \in S : TRUE
         IN  val[x] + SumOver(S \ {x}, val)

RECURSIVE Concat(_)
\* the concatenation of a sequence of sequences
Concat(ss) == IF ss = <<>> THEN <<>> ELSE Head(ss) \o Concat(Tail(ss))

(***************************************************************************)
(* author_yearly_feature_counts.                                           *)
(***************************************************************************)
\* merge, set_index, stack: one entry per author slot of each record; a
\* record with an empty list has no slot and leaves no entry
Stacked(wide) ==
    UNION {{<<i, j>> : j \in DOMAIN wide[i].allauthorids} : i \in DOMAIN wide}

EntryKey(wide, p) ==
    <<wide[p[1]].pubyear, wide[p[1]].feature, wide[p[1]].allauthorids[p[2]]>>

\* the pivot with the records of a group counted, not its entries
Sizes_records(wide) ==
    LET entries == Stacked(wide)
        keys == {EntryKey(wide, p) : p \in entries}
    IN  [k \in keys |->
            Cardinality({p[1] : p \in {q \in entries : EntryKey(wide, q) = k}})]

\* pivot_table(index=[pubyear, feature, 'aloi'], aggfunc='size'): the size
\* of every group of entries that occurs
Sizes(wide) ==
    LET entries == Stacked(wide)
        keys == {EntryKey(wide, p) : p \in entries}
    IN  [k \in keys |-> Cardinality({p \in entries : EntryKey(wide, p) = k})]

\* unstack(level=1).fillna(0): rows (pubyear, aloi), one column per feature
\* value among the entries, 0 where the group does not occur
Unstacked(sizes) ==
    LET index == {<<k[1], k[3]>> : k \in DOMAIN sizes}
        columns == {k[2] : k \in DOMAIN sizes}
    IN  [ix \in index |->
            [f \in columns |->
                IF <<ix[1], f, ix[2]>> \in DOMAIN sizes
                THEN sizes[<<ix[1], f, ix[2]>>] ELSE 0]]

\* tmp.div with the sum taken over the whole frame instead of per row
DivByRowSum_frame(frame) ==
    LET total == SumOver(DOMAIN frame,
                         [ix \in DOMAIN frame |->
                             SumOver(DOMAIN frame[ix], frame[ix])])
    IN  [ix \in DOMAIN frame |->
            [f \in DOMAIN frame[ix] |-> [num |-> frame[ix][f], den |-> total]]]

\* tmp.div(tmp.sum(axis=1), axis=0)
DivByRowSum(frame) ==
    [ix \in DOMAIN frame |->
        LET total == SumOver(DOMAIN frame[ix], frame[ix])
        IN  [f \in DOMAIN frame[ix] |-> [num |-> frame[ix][f], den |-> total]]]

AsCounts(frame) ==
    [ix \in DOMAIN frame |->
        [f \in DOMAIN frame[ix] |-> [num |-> frame[ix][f], den |-> 1]]]

\* the index and the columns of the frame in pandas' sorted order
IndexOrder(frame) ==
    SortedBy(DOMAIN frame,
             [ix \in DOMAIN frame |->
                 ix[1] * (Len(AuthorIds) + 1) + Rank(AuthorIds, ix[2])])

ColumnOrder(frame) ==
    LET columns == UNION {DOMAIN frame[ix] : ix \in DOMAIN frame}
    IN  SortedBy(columns, [f \in columns |-> Rank(FeatureValues, f)])

\* reset_index().melt(id_vars=['aloi', pubyear], value_name='n'): for each
\* feature column in turn, one row per row of the frame
Melt(frame) ==
    LET index == IndexOrder(frame)
        columns == ColumnOrder(frame)
    IN  Concat([c \in DOMAIN columns |->
                  [r \in DOMAIN index |->
                      [aloi |-> index[r][2], pubyear |-> index[r][1],
                       feature |-> columns[c],
                       n |-> frame[index[r]][columns[c]]]]])

\* groupby('aloi')[pubyear] with max() in place of min()
AuthorCohorts_max(rows) ==
    [a \in {rows[i].aloi : i \in DOMAIN rows} |->
        SetMax({rows[i].pubyear : i \in {j \in DOMAIN rows : rows[j].aloi = a}})]

\* tidy.groupby('aloi')[pubyear].min()
AuthorCohorts(rows) ==
    [a \in {rows[i].aloi : i \in DOMAIN rows} |->
        SetMin({rows[i].pubyear : i \in {j \in DOMAIN rows : rows[j].aloi = a}})]

\* tidy.merge(author_cohorts.to_frame('cohort'), left_on='aloi',
\* right_index=True): every row gets its author's cohort
MergeCohort(rows) ==
    LET author_cohorts == AuthorCohorts(rows)
    IN  [i \in DOMAIN rows |->
            [aloi |-> rows[i].aloi, pubyear |-> rows[i].pubyear,
             feature |-> rows[i].feature, n |-> rows[i].n,
             cohort |-> author_cohorts[rows[i].aloi]]]

\* lines 49-68: the frame that is melted
Reshape(wide, knd) ==
    LET frame == Unstacked(Sizes(wide))
    IN  IF knd = "rel" THEN DivByRowSum(frame) ELSE AsCounts(frame)

author_yearly_feature_counts(wide, knd) ==
    IF knd \notin {"rel", "abs"}
    THEN Raised("ValueError")
    ELSE Returned([ncol |-> "n",
                   rows |-> MergeCohort(Melt(Reshape(wide, knd)))])

\* the wide tables drawn: up to MaxRecords records of two years, with up to
\* MaxAuthors identifiers each (a repeated identifier included), at least
\* one record listing an author (without any, the frame of line 50 has no
\* column to stack, and what the reshaping then yields is decided inside
\* pandas, not by these lines)
AggYears == {2000, 2001}

WideRecords(maxAuthors) ==
    [pubyear : AggYears, feature : Range(FeatureValues),
     allauthorids : SeqsUpTo(Range(AuthorIds), maxAuthors)]

WideTables(maxRecords, maxAuthors) ==
    {w \in SeqsUpTo(WideRecords(maxAuthors), maxRecords) :
        \E i \in DOMAIN w : w[i].allauthorids # <<>>}

IdleAgg == mt = <<>> /\ kind = "rel" /\ tidy = Pending

InitAgg ==
    /\ mt \in WideTables(MaxRecords, MaxAuthors)
    /\ kind \in Kinds
    /\ tidy = Pending

CallAuthorYearlyFeatureCounts ==
    /\ tidy = Pending
    /\ tidy' = author_yearly_feature_counts(mt, kind)
    /\ UNCHANGED <<mt, kind>>

(***************************************************************************)
(* survivors.  The function reads the columns cohort, aloi and the year    *)
(* column only; a cohort value is compared for equality and nothing else.  *)
(***************************************************************************)
\* the rows of a table as a set of values of one column
Column(rows, col) == {rows[i][col] : i \in DOMAIN rows}

\* the loop body for cohort c: au_c starts as the authors of the cohort's
\* rows and is intersected with the authors of each of the cohort's years
SurvivorsOfCohort(rows, c) ==
    LET df_c == SelectSeq(rows, LAMBDA r : r.cohort = c)
        au_c == Column(df_c, "aloi")
    IN  {a \in au_c :
            \A y \in Column(df_c, "pubyear") :
                a \in Column(SelectSeq(df_c, LAMBDA r : r.pubyear = y), "aloi")}

survivors(t) ==
    LET d == [c \in Column(t.rows, "cohort") |-> SurvivorsOfCohort(t.rows, c)]
    IN  IF DOMAIN d = {}
        THEN \* set.union(*d.values()) without an argument
             Raised("TypeError")
        ELSE LET union == UNION {d[c] : c \in DOMAIN d}
             IN  Returned([ncol |-> t.ncol,
                           rows |-> SelectSeq(t.rows, LAMBDA r : r.aloi \in union)])

\* the tidy tables drawn for survivors: up to MaxRows rows over two authors,
\* three years and two cohort values; the columns survivors does not read
\* are the same on every row
SurvYears == {2000, 2001, 2002}
SurvCohorts == {2000, 2001}

SurvRows ==
    [aloi : Range(AuthorIds), pubyear : SurvYears, feature : {"article"},
     n : {[num |-> 1, den |-> 1]}, cohort : SurvCohorts]

SurvTables(maxRows) == [ncol : {"n"}, rows : SeqsUpTo(SurvRows, maxRows)]

IdleSurv == df = <<>> /\ survived = Pending /\ survivedAgain = Pending

InitSurv ==
    /\ df \in SurvTables(MaxRows)
    /\ survived = Pending
    /\ survivedAgain = Pending

CallSurvivors ==
    /\ survived = Pending
    /\ survived' = survivors(df)
    /\ UNCHANGED <<df, survivedAgain>>

\* survivors called on the table the first call returned
CallSurvivorsAgain ==
    /\ IsReturned(survived)
    /\ survivedAgain = Pending
    /\ survivedAgain' = survivors(survived.value)
    /\ UNCHANGED <<df, survived>>

(***************************************************************************)
(* chart_from_tidy_df.  A cohort value of a table that is charted is a     *)
(* label: the pair of the letter chart_from_tidy_df puts before it ("" as  *)
(* long as it has none) and the year text, for f'{ch} ({years})'.  Labels  *)
(* sort as their strings do: by the letter, then by the years.  The tables *)
(* drawn carry labels without a letter, and each is charted once.          *)
(***************************************************************************)
Letters == <<"A", "B", "C", "D", "E", "F">>

LetterRank(l) == IF l = "" THEN 0 ELSE Rank(Letters, l)

LabelLess(c1, c2) ==
    \/ LetterRank(c1.letter) < LetterRank(c2.letter)
    \/ c1.letter = c2.letter /\ c1.years < c2.years

RECURSIVE SortedLabels(_)
\* sorted(df.cohort.unique())
SortedLabels(S) ==
    IF S = {} THEN <<>>
    ELSE LET m == CHOOSE c \in S : \A o \in S \ {c} : LabelLess(c, o)
         IN  <<m>> \o SortedLabels(S \ {m})

\* df['cohort'].replace({years: f'{ch} ({years})' for ch, years in
\*                       zip('ABCDEF', cohortnames)})
ReplaceCohorts(rows) ==
    LET cohortnames == SortedLabels(Column(rows, "cohort"))
        named == {cohortnames[k] : k \in DOMAIN cohortnames \cap DOMAIN Letters}
    IN  [i \in DOMAIN rows |->
            IF rows[i].cohort \in named
            THEN [rows[i] EXCEPT !.cohort =
                     [letter |-> Letters[Rank(cohortnames, rows[i].cohort)],
                      years |-> rows[i].cohort.years]]
            ELSE rows[i]]

RowLess(r1, r2) ==
    \/ LabelLess(r1.cohort, r2.cohort)
    \/ /\ r1.cohort = r2.cohort
       /\ Rank(FeatureValues, r1.feature) < Rank(FeatureValues, r2.feature)

\* r put behind every row of the sorted sequence that is not greater
InsertRow(sorted, r) ==
    LET k == Cardinality({i \in DOMAIN sorted : ~RowLess(r, sorted[i])})
    IN  SubSeq(sorted, 1, k) \o <<r>> \o SubSeq(sorted, k + 1, Len(sorted))

RECURSIVE SortValues(_)
\* sort_values(by=['cohort', feature]): rows with equal keys keep their order
SortValues(rows) ==
    IF rows = <<>> THEN <<>>
    ELSE InsertRow(SortValues(SubSeq(rows, 1, Len(rows) - 1)), rows[Len(rows)])

\* lines 153-164 on the table df names: rename, replace, sort, all in place.
\* replaced says whether the replace on the column df['cohort'] reached the
\* table (it does when df['cohort'] is a view of it, and does not under
\* pandas' copy-on-write, where it is a copy)
Prepare(t, knd, replaced) ==
    LET ylabel == IF knd = "rel" THEN "Mean percentage" ELSE "Mean of n"
        renamed == IF t.ncol = "n" THEN ylabel ELSE t.ncol
        rows == IF replaced THEN ReplaceCohorts(t.rows) ELSE t.rows
    IN  [ncol |-> renamed, rows |-> SortValues(rows)]

\* what a call does: caller is the caller's table after it, result what the
\* call produced (the table handed to relplot, the y column and whether the
\* y axis was clipped)
chart_from_tidy_df(t, knd, only_survivors, replaced) ==
    LET filtered == IF only_survivors THEN survivors(t) ELSE Returned(t)
    IN  IF IsRaised(filtered)
        THEN [caller |-> t, result |-> filtered]
        ELSE LET work == Prepare(filtered.value, knd, replaced)
             IN  [caller |-> IF only_survivors THEN t ELSE work,
                  result |-> Returned([data |-> work, y |-> work.ncol,
                                       ylim |-> knd = "rel"])]

\* the tables drawn for chart_from_tidy_df: up to MaxChartRows rows
ChartYears == {2000, 2001}

ChartRows ==
    [aloi : Range(AuthorIds), pubyear : ChartYears,
     feature : Range(FeatureValues), n : {[num |-> 1, den |-> 1]},
     cohort : [letter : {""}, years : ChartYears]]

ChartTables(maxRows) == [ncol : {"n"}, rows : SeqsUpTo(ChartRows, maxRows)]

IdleChart == callerDf = <<>> /\ dfBefore = <<>> /\ chart = Pending

InitChart ==
    /\ callerDf \in ChartTables(MaxChartRows)
    /\ dfBefore = callerDf
    /\ chart = Pending

CallChartFromTidyDf ==
    /\ chart = Pending
    /\ \E knd \in {"rel", "abs"}, only_survivors \in BOOLEAN, replaced \in BOOLEAN :
          LET call == chart_from_tidy_df(callerDf, knd, only_survivors, replaced)
          IN  /\ callerDf' = call.caller
              /\ chart' = [state |-> "called", kind |-> knd,
                            only_survivors |-> only_survivors,
                            outcome |-> call.result]
    /\ UNCHANGED dfBefore

(***************************************************************************)
(* load_data.  A file is a sequence of data lines under a header; a line   *)
(* has the text of its authorids field (the empty text: no value).         *)
(***************************************************************************)
DefaultPath == "data/data.csv"
Paths == {DefaultPath, "data/other.csv"}

NoFile == [exists |-> FALSE]
File(lines) == [exists |-> TRUE, lines |-> lines]

RECURSIVE Split(_, _)
\* str.split(sep) on a non-empty text: the pieces between the separators
Split(text, sep) ==
    IF \A i \in DOMAIN text : text[i] # sep THEN <<text>>
    ELSE LET k == SetMin({i \in DOMAIN text : text[i] = sep})
         IN  <<SubSeq(text, 1, k - 1)>> \o Split(SubSeq(text, k + 1, Len(text)), sep)

\* lines 22-30 on the file at path
LoadFrom(filesystem, path) ==
    IF ~filesystem[path].exists
    THEN Raised("FileNotFoundError")
    ELSE LET lines == filesystem[path].lines
         IN  IF lines # <<>> /\ \A i \in DOMAIN lines : lines[i].authorids = <<>>
             THEN \* a column without any text is numeric: it has no .str
                  Raised("AttributeError")
             ELSE Returned([i \in DOMAIN lines |->
                      [pubyear |-> lines[i].pubyear,
                       feature |-> lines[i].feature,
                       authorids |-> lines[i].authorids,
                       allauthorids |->
                           IF lines[i].authorids = <<>> THEN <<>>
                           ELSE Split(lines[i].authorids, ";")]])

\* what a call does: the path handed to read_csv, and what the call produced
load_data(filesystem, name) ==
    [read |-> DefaultPath, result |-> LoadFrom(filesystem, DefaultPath)]

\* the file systems drawn: under each path no file, or a file of up to
\* MaxFileRows lines
AuthorTexts == {<<>>, <<"a">>, <<"a", ";", "b">>, <<"b", ";">>}

FileLines == [pubyear : {2000}, feature : {"article"}, authorids : AuthorTexts]

Files(maxLines) == {NoFile} \cup {File(l) : l \in SeqsUpTo(FileLines, maxLines)}

IdleLoad ==
    /\ fs = <<>> /\ fname = DefaultPath /\ readPath = "" /\ loaded = Pending

InitLoad ==
    /\ fs \in [Paths -> Files(MaxFileRows)]
    /\ fname \in Paths
    /\ readPath = ""
    /\ loaded = Pending

CallLoadData ==
    /\ loaded = Pending
    /\ LET call == load_data(fs, fname)
       IN  readPath' = call.read /\ loaded' = call.result
    /\ UNCHANGED <<fs, fname>>

(***************************************************************************)
(* The specifications.                                                     *)
(***************************************************************************)
NextCohorts ==
    CallMakeCohorts /\ UNCHANGED <<aggVars, survVars, chartVars, loadVars>>

NextAgg ==
    CallAuthorYearlyFeatureCounts
        /\ UNCHANGED <<cohortVars, survVars, chartVars, loadVars>>

NextSurv ==
    \/ CallSurvivors /\ UNCHANGED <<cohortVars, aggVars, chartVars, loadVars>>
    \/ CallSurvivorsAgain /\ UNCHANGED <<cohortVars, aggVars, chartVars, loadVars>>

NextChart ==
    CallChartFromTidyDf /\ UNCHANGED <<cohortVars, aggVars, survVars, loadVars>>

NextLoad ==
    CallLoadData /\ UNCHANGED <<cohortVars, aggVars, survVars, chartVars>>

StartCohorts == InitCohorts /\ IdleAgg /\ IdleSurv /\ IdleChart /\ IdleLoad
StartAgg     == IdleCohorts /\ InitAgg /\ IdleSurv /\ IdleChart /\ IdleLoad
StartSurv    == IdleCohorts /\ IdleAgg /\ InitSurv /\ IdleChart /\ IdleLoad
StartChart   == IdleCohorts /\ IdleAgg /\ IdleSurv /\ InitChart /\ IdleLoad
StartLoad    == IdleCohorts /\ IdleAgg /\ IdleSurv /\ IdleChart /\ InitLoad

SpecCohorts == StartCohorts /\ [][NextCohorts]_vars
SpecAgg     == StartAgg /\ [][NextAgg]_vars
SpecSurv    == StartSurv /\ [][NextSurv]_vars
SpecChart   == StartChart /\ [][NextChart]_vars
SpecLoad    == StartLoad /\ [][NextLoad]_vars

(***************************************************************************)
(* make_cohorts: the claims.                                               *)
(***************************************************************************)
\* the years that share the identifier v in the mapping res
Block(res, v) == {y \in DOMAIN res : res[y] = v}

\* C1: whenever make_cohorts returns, the keys of the mapping are exactly
\* first..last; the years of each identifier are consecutive, at least 1 and
\* at most cohort_length, and exactly cohort_length unless the block holds
\* the last year; without fancy names the identifiers are integers, 1 for
\* the first year and never smaller for a later year.
C1_CohortsPartitionRange ==
    IsReturned(cohorts) =>
        LET res == cohorts.value
        IN  /\ DOMAIN res = first..last
            /\ \A v \in Range(res) :
                  LET block == Block(res, v)
                  IN  /\ block = SetMin(block)..SetMax(block)
                      /\ Cardinality(block) \in 1..cohort_length
                      /\ last \notin block => Cardinality(block) = cohort_length
            /\ ~fancy_names =>
                  /\ res[first] = 1
                  /\ \A y \in DOMAIN res : res[y] \in Int
                  /\ \A y1, y2 \in DOMAIN res : y1 <= y2 => res[y1] <= res[y2]

\* C1 witness: a call with fancy names that returned three or more cohorts,
\* the last one truncated, over a range that crosses a century
C1_Witness ==
    /\ IsReturned(cohorts) /\ fancy_names
    /\ Cardinality(Range(cohorts.value)) >= 3
    /\ (last - first + 1) % cohort_length # 0
    /\ first = 1998 /\ last > 2000

\* C2: a call raises exactly when cohort_length < 1 or
\* cohort_length > last - first, and a call with
\* cohort_length = last - first returns a mapping with exactly two cohorts.
C2_RaisesIffOutOfRange ==
    cohorts # Pending =>
        /\ IsRaised(cohorts) <=>
               (cohort_length < 1 \/ cohort_length > last - first)
        /\ (cohort_length >= 1 /\ cohort_length = last - first) =>
               /\ IsReturned(cohorts)
               /\ Cardinality(Range(cohorts.value)) = 2

\* C2 witness: the boundary cohort_length = last - first was accepted, with
\* a second cohort of one year
C2_Witness ==
    /\ IsReturned(cohorts)
    /\ cohort_length = last - first
    /\ cohort_length >= 2
    /\ Block(cohorts.value, cohorts.value[last]) = {last}

(***************************************************************************)
(* author_yearly_feature_counts: the claims.                               *)
(***************************************************************************)
\* the years of the records that list author a
ObservedYears(a) ==
    {mt[i].pubyear : i \in {k \in DOMAIN mt : a \in Range(mt[k].allauthorids)}}

\* the (author, year) pairs that occur on a record
ObservedPairs ==
    UNION {{<<a, mt[i].pubyear>> : a \in Range(mt[i].allauthorids)} : i \in DOMAIN mt}

\* how often author a is listed on records of year y with feature value f
Listings(a, y, f) ==
    Cardinality(UNION {{<<i, j>> : j \in {k \in DOMAIN mt[i].allauthorids :
                                              mt[i].allauthorids[k] = a}} :
                       i \in {k \in DOMAIN mt :
                                  mt[k].pubyear = y /\ mt[k].feature = f}})

\* the rows of the result for author a (and year y)
RowsOfAuthor(a) == {i \in DOMAIN tidy.value.rows : tidy.value.rows[i].aloi = a}
RowsOfPair(a, y) == {i \in RowsOfAuthor(a) : tidy.value.rows[i].pubyear = y}

\* the integer-named cohort maps over a range that covers the years of the
\* data (a fancy name is a string and equals no year)
CohortMapsOverData ==
    UNION {UNION {{make_cohorts(f, l, len, FALSE).value : len \in 1..(l - f)} :
                     l \in {SetMax(AggYears), SetMax(AggYears) + 1}} :
              f \in {SetMin(AggYears) - 1, SetMin(AggYears)}}

\* C6 as claimed: the cohort on every row is the Cohort Map's cohort of the
\* author's minimum year, for some cohort map over the years of the data.
C6_CohortPerCohortMap ==
    IsReturned(tidy) =>
        \E M \in CohortMapsOverData :
            \A i \in DOMAIN tidy.value.rows :
                LET r == tidy.value.rows[i]
                IN  r.cohort = M[SetMin(ObservedYears(r.aloi))]

\* C6 as amended: every row of an author carries the same cohort value, and
\* it is the minimum year itself: the least year among the author's rows,
\* which is the least year of the records that list the author, whatever
\* the order of the records.
C6_CohortIsMinimumYear ==
    IsReturned(tidy) =>
        \A i \in DOMAIN tidy.value.rows :
            LET r == tidy.value.rows[i]
            IN  /\ r.cohort = SetMin(ObservedYears(r.aloi))
                /\ r.cohort = SetMin({tidy.value.rows[j].pubyear :
                                          j \in RowsOfAuthor(r.aloi)})
                /\ \A j \in RowsOfAuthor(r.aloi) :
                       tidy.value.rows[j].cohort = r.cohort

\* C6 witness: an author listed on a record of a later year before a record
\* of an earlier year, with rows in both years
C6_Witness ==
    /\ IsReturned(tidy)
    /\ \E a \in Range(AuthorIds) :
          /\ Len(mt) >= 2
          /\ a \in Range(mt[1].allauthorids) \cap Range(mt[2].allauthorids)
          /\ mt[1].pubyear > mt[2].pubyear
          /\ \E i, j \in RowsOfAuthor(a) :
                tidy.value.rows[i].pubyear # tidy.value.rows[j].pubyear

\* C7: with kind='rel', the values n of every (author, year) pair with rows
\* have one positive denominator, their numerators sum to it (the values sum
\* to 1), and every value lies between 0 and 1.
C7_RelativeSumsToOne ==
    (IsReturned(tidy) /\ kind = "rel") =>
        \A i \in DOMAIN tidy.value.rows :
            LET r == tidy.value.rows[i]
                pair == RowsOfPair(r.aloi, r.pubyear)
            IN  /\ r.n.den > 0
                /\ r.n.num >= 0 /\ r.n.num <= r.n.den
                /\ \A j \in pair : tidy.value.rows[j].n.den = r.n.den
                /\ SumOver(pair, [j \in pair |-> tidy.value.rows[j].n.num]) = r.n.den

\* C7 witness: a result with a value strictly between 0 and 1 (an author
\* with two feature values in one year) and a zero-filled value
C7_Witness ==
    /\ IsReturned(tidy) /\ kind = "rel"
    /\ \E i, j \in DOMAIN tidy.value.rows :
          /\ tidy.value.rows[i].n.num > 0
          /\ tidy.value.rows[i].n.num < tidy.value.rows[i].n.den
          /\ tidy.value.rows[j].n.num = 0

\* the rows of the result are one per pair and feature value of F, with the
\* number of listings as n, and there are no other rows
OneRowPerPairAndFeature(F) ==
    LET rows == tidy.value.rows
    IN  /\ \A pr \in ObservedPairs : \A f \in F :
              /\ Cardinality({i \in RowsOfPair(pr[1], pr[2]) : rows[i].feature = f}) = 1
              /\ \A i \in RowsOfPair(pr[1], pr[2]) :
                    rows[i].feature = f =>
                        rows[i].n = [num |-> Listings(pr[1], pr[2], f), den |-> 1]
        /\ \A i \in DOMAIN rows :
              /\ <<rows[i].aloi, rows[i].pubyear>> \in ObservedPairs
              /\ rows[i].feature \in F

\* C8 as claimed: with kind='abs' there is exactly one row per observed
\* (author, year) pair and feature value of the dataset, n is the number of
\* listings, and there are no other rows.
C8_RowPerFeatureOfDataset ==
    (IsReturned(tidy) /\ kind = "abs") =>
        OneRowPerPairAndFeature({mt[i].feature : i \in DOMAIN mt})

\* C8 as amended: the same for the feature values of the records that list
\* at least one author; a feature value that occurs only on records with an
\* empty author list has no rows.
C8_RowPerFeatureOfAuthoredRecords ==
    (IsReturned(tidy) /\ kind = "abs") =>
        OneRowPerPairAndFeature(
            {mt[i].feature : i \in {k \in DOMAIN mt : mt[k].allauthorids # <<>>}})

\* C8 witness: a result with a count of 2 from one record that lists an
\* author twice, beside a record without authors
C8_Witness ==
    /\ IsReturned(tidy) /\ kind = "abs"
    /\ \E i \in DOMAIN mt : mt[i].allauthorids = <<>>
    /\ \E i \in DOMAIN mt :
          Len(mt[i].allauthorids) = 2 /\ mt[i].allauthorids[1] = mt[i].allauthorids[2]
    /\ \E i \in DOMAIN tidy.value.rows : tidy.value.rows[i].n.num = 2

(***************************************************************************)
(* survivors: the claims.                                                  *)
(***************************************************************************)
\* every author's rows carry one cohort
OneCohortPerAuthor(rows) ==
    \A i, j \in DOMAIN rows :
        rows[i].aloi = rows[j].aloi => rows[i].cohort = rows[j].cohort

\* author a has a row of cohort c in every year that occurs among the rows
\* of cohort c
InEveryYearOfCohort(rows, a, c) ==
    \A y \in {rows[i].pubyear : i \in {k \in DOMAIN rows : rows[k].cohort = c}} :
        \E i \in DOMAIN rows :
            rows[i].aloi = a /\ rows[i].cohort = c /\ rows[i].pubyear = y

\* the rows of the authors present in every year of their row's cohort
RowsOfSurvivors(rows) ==
    SelectSeq(rows, LAMBDA r : InEveryYearOfCohort(rows, r.aloi, r.cohort))

\* C3 as claimed: on every table with one cohort per author, survivors
\* returns exactly the rows of the authors present in every year of their
\* cohort.
C3_ReturnsRowsOfSurvivors ==
    (survived # Pending /\ OneCohortPerAuthor(df.rows)) =>
        /\ IsReturned(survived)
        /\ survived.value.rows = RowsOfSurvivors(df.rows)

\* The statement of C3 on the tables that have a row: there survivors
\* returns, and returns those rows.
SurvivorsOfNonEmptyTable ==
    (survived # Pending /\ OneCohortPerAuthor(df.rows) /\ df.rows # <<>>) =>
        /\ IsReturned(survived)
        /\ survived.value.rows = RowsOfSurvivors(df.rows)

\* C4 as claimed: a second call on the table the first call returned
\* returns too, with the same rows.
C4_SurvivorsIdempotent ==
    survivedAgain # Pending =>
        /\ IsReturned(survivedAgain)
        /\ survivedAgain.value.rows = survived.value.rows

\* A second call that returns leaves the rows as they are.
SurvivorsAgainKeepsRows ==
    IsReturned(survivedAgain) =>
        survivedAgain.value.rows = survived.value.rows

\* C5 as claimed: a returned row's author is present in every year observed
\* for that row's cohort, whatever rows the author has under other cohorts.
C5_RowsKeptPerCohort ==
    IsReturned(survived) =>
        \A i \in DOMAIN survived.value.rows :
            InEveryYearOfCohort(df.rows, survived.value.rows[i].aloi,
                                survived.value.rows[i].cohort)

(***************************************************************************)
(* chart_from_tidy_df: the claim.                                          *)
(***************************************************************************)
\* C9 as claimed: after a call, with only_survivors or without, the caller's
\* table is what it was before: the same value column name, cohort values
\* and row order.
C9_CallerTableUnchanged ==
    chart # Pending => callerDf = dfBefore

\* With only_survivors=True the caller's table is left as it was.
CallerTableUnchangedBySurvivorChart ==
    (chart # Pending /\ chart.only_survivors) => callerDf = dfBefore

(***************************************************************************)
(* load_data: the claim.                                                   *)
(***************************************************************************)
\* C10 as claimed: a call reads the file at the path it is given and
\* returns that file's records.
C10_LoadsGivenPath ==
    loaded # Pending =>
        /\ readPath = fname
        /\ loaded = LoadFrom(fs, fname)

====
